---- MODULE Spec2Model ----
(***************************************************************************)
(* Model of ribasim.Model (python/ribasim/ribasim/model.py): the root      *)
(* aggregate that owns one sub-model per node type, the edge table and the *)
(* scalar settings, and that reads / writes itself as a TOML config file   *)
(* plus a geometry store (database.gpkg).                                  *)
(*                                                                         *)
(* State: the Model object in memory, the file system (config files,       *)
(* geometry stores, directories), the shared context_file_loading          *)
(* context, and the call that was made last together with its outcome.     *)
(***************************************************************************)
EXTENDS Integers, Sequences, FiniteSets, TLC

VARIABLES model, files, stores, dirs, context_file_loading, last

vars == <<model, files, stores, dirs, context_file_loading, last>>

(***************************************************************************)
(* Bounds                                                                  *)
(***************************************************************************)
\* node IDs are drawn from 1..MaxId
MaxId == 2
\* a node table has at most MaxRows rows
MaxRows == 2

(***************************************************************************)
(* Program constants                                                       *)
(***************************************************************************)
ribasim_version == "0.2.0"

\* The node-type fields of Model, in declaration order (a prefix-closed
\* selection of the fourteen MultiNodeModel fields: basin before pump).
NodeFields == <<"basin", "pump">>

NodeNames == {NodeFields[i] : i \in 1..Len(NodeFields)}

\* model_fields.keys(): the declared fields in declaration order
model_fields == <<"starttime", "endtime", "input_dir", "results_dir", "solver">>
                  \o NodeFields \o <<"edge">>

NodeIds == 1..MaxId

(***************************************************************************)
(* Paths.  A Path is the sequence of its components; pathlib drops "."     *)
(* components when it builds a Path and prints the empty Path as ".".      *)
(***************************************************************************)
IsNotDot(c) == c # "."

\* Path(raw): build a Path from the components of a string
Path(raw) == SelectSeq(raw, IsNotDot)

\* str(path), as the sequence of components of the printed string
serialize_path(path) == IF path = <<>> THEN <<".">> ELSE path

\* a / b  for a Path a and a string or Path b
Join(a, b) == a \o Path(b)

\* position of the last "." of a file name, 0 when there is none
RECURSIVE rfind(_, _)
rfind(name, i) ==
    IF i = 0 THEN 0
    ELSE IF name[i] = "." THEN i
    ELSE rfind(name, i - 1)

\* PurePath.suffix of a file name given as a sequence of tokens
suffix(name) ==
    LET i == rfind(name, Len(name))
    IN  IF 1 < i /\ i < Len(name) THEN SubSeq(name, i, Len(name)) ELSE <<>>

TomlSuffix == <<".", "toml">>

\* a variant that tests the end of the file name instead of its suffix
IsToml_endswith(filepath) ==
    LET n == Len(filepath.name)
    IN  n >= 2 /\ SubSeq(filepath.name, n - 1, n) = TomlSuffix

\* the test of Model.write on the file name
IsToml(filepath) == suffix(filepath.name) = TomlSuffix

\* directories a config file is written to
Dirs == {<<"model">>}

\* file names tried by callers: m.toml, m.csv, .toml (a hidden file: no suffix)
Names == { <<"m", ".", "toml">>, <<"m", ".", "csv">>, <<".", "toml">> }

FilePaths == [parent : Dirs, name : Names]

\* input_dir as the caller passes it: a string (components)
InputDirArgs == { <<".">>, <<"input">>, <<".", "input">> }

StoreDirs == {Join(d, i) : d \in Dirs, i \in InputDirArgs}

(***************************************************************************)
(* Tables                                                                  *)
(***************************************************************************)
\* a dataframe attribute: df is None (present = FALSE) or a sequence of rows
NoDf == [present |-> FALSE, rows |-> <<>>]

Df(rows) == [present |-> TRUE, rows |-> rows]

NodeRow(t, id) == [node_id |-> id, node_type |-> t]

IsInjective(f) == \A i, j \in DOMAIN f : f[i] = f[j] => i = j

IdSeqs == {s \in UNION {[1..n -> NodeIds] : n \in 0..MaxRows} : IsInjective(s)}

\* the node tables a caller assigns to the sub-model of type t
NodeTables(t) == {[i \in 1..Len(s) |-> NodeRow(t, s[i])] : s \in IdSeqs}

\* the node tables assigned between writes and reads: at most one row
SmallTables(t) == {df \in NodeTables(t) : Len(df) <= 1}

EdgeRow(id, from, to) == [edge_id |-> id, from_node_id |-> from, to_node_id |-> to]

\* the edge tables a caller passes to the constructor
EdgeTables == { <<EdgeRow(1, 1, 2)>> }

StartTimes == {"2020-01-01"}

EndTime == "2020-12-31"

\* Solver(...) as the caller builds it: which fields it sets and to what
SolverArgs == { [fields_set |-> {"saveat"}, saveat |-> "None"],
                [fields_set |-> {"saveat"}, saveat |-> "3600"] }

DefaultSolver == [fields_set |-> {}, saveat |-> "None"]


(***************************************************************************)
(* The Model object                                                        *)
(***************************************************************************)
\* a keyword argument of the constructor: given or left to its default
KwArgs(S) == [given : {TRUE}, value : S]

NotGiven(v) == [given |-> FALSE, value |-> v]

\* a variant that leaves the set of set fields alone
model_post_init_noop(self) == self

\* model_post_init: the dir fields always count as set
model_post_init(self) ==
    [self EXCEPT !.fields_set = @ \cup {"input_dir", "results_dir"}]

\* Model(starttime=.., endtime=.., input_dir=.., solver=.., edge=..):
\* field defaults, then model_post_init.  Every node-type sub-model starts
\* as its default, whose node table is None.
Model(starttime, input_dir, solver, edge) ==
    model_post_init(
        [ starttime   |-> starttime,
          endtime     |-> EndTime,
          input_dir   |-> IF input_dir.given THEN Path(input_dir.value) ELSE Path(<<".">>),
          results_dir |-> Path(<<"results">>),
          solver      |-> IF solver.given THEN solver.value ELSE DefaultSolver,
          node        |-> [t \in NodeNames |-> NoDf],
          edge        |-> edge,
          fields_set  |-> {"starttime", "endtime", "edge"}
                            \cup (IF input_dir.given THEN {"input_dir"} ELSE {})
                            \cup (IF solver.given THEN {"solver"} ELSE {}) ])

\* the value of `last.model` when the last call returned no Model
NoModel ==
    [ starttime |-> "", endtime |-> "", input_dir |-> <<>>, results_dir |-> <<>>,
      solver |-> DefaultSolver, node |-> [t \in NodeNames |-> NoDf],
      edge |-> <<>>, fields_set |-> {} ]

\* a sub-model counts as populated when its node table is neither None nor empty
IsPopulated(self, t) == self.node[t].present /\ self.node[t].rows # <<>>

\* a variant that stops at the first non-empty sub-model
_nodes_first(self) ==
    LET all == SelectSeq(NodeFields, LAMBDA t : IsPopulated(self, t))
    IN  IF all = <<>> THEN <<>> ELSE <<Head(all)>>

\* Model._nodes: the non-empty MultiNodeModel fields, in field order
_nodes(self) == SelectSeq(NodeFields, LAMBDA t : IsPopulated(self, t))

(***************************************************************************)
(* node_table                                                              *)
(***************************************************************************)
\* pd.concat(chunks, ignore_index=True) of a non-empty list of chunks
RECURSIVE concat(_)
concat(chunks) ==
    IF chunks = <<>> THEN <<>> ELSE Head(chunks) \o concat(Tail(chunks))

\* insert row r into the sorted sequence s, after the rows with an equal ID
RECURSIVE Insert(_, _)
Insert(r, s) ==
    IF s = <<>> THEN <<r>>
    ELSE IF Head(s).node_id <= r.node_id THEN <<Head(s)>> \o Insert(r, Tail(s))
    ELSE <<r>> \o s

\* NodeTable.sort: by node ID ascending, stable
RECURSIVE sort(_)
sort(rows) ==
    IF rows = <<>> THEN <<>>
    ELSE Insert(rows[Len(rows)], sort(SubSeq(rows, 1, Len(rows) - 1)))

\* a variant that returns the concatenation without sorting it
node_table_unsorted(self) ==
    LET ns == _nodes(self)
        df_chunks == [i \in 1..Len(ns) |-> self.node[ns[i]].rows]
    IN  IF df_chunks = <<>>
        THEN [ret |-> "ValueError", table |-> <<>>]
        ELSE [ret |-> "ok", table |-> concat(df_chunks)]

\* Model.node_table: pd.concat raises ValueError on an empty list of chunks
node_table(self) ==
    LET ns == _nodes(self)
        df_chunks == [i \in 1..Len(ns) |-> self.node[ns[i]].rows]
    IN  IF df_chunks = <<>>
        THEN [ret |-> "ValueError", table |-> <<>>]
        ELSE [ret |-> "ok", table |-> sort(concat(df_chunks))]


(***************************************************************************)
(* File system and load/write context                                      *)
(***************************************************************************)
\* a geometry store: absent, or one layer per saved table
NoStore == [exists |-> FALSE, edge |-> NoDf, node |-> [t \in NodeNames |-> NoDf]]

\* a config file: absent, or its lines (key, value), in file order
NoFile == [exists |-> FALSE, lines |-> <<>>]

\* context_file_loading.set({})
EmptyContext == [has_directory |-> FALSE, directory |-> <<>>,
                 has_database |-> FALSE, database |-> <<>>]

database_gpkg == <<"database.gpkg">>

\* the directory that holds the file at `path`
Parent(path) == SubSeq(path, 1, Len(path) - 1)

\* mkdir(parents=True, exist_ok=True): the directory and all its ancestors
mkdir(existing, directory) ==
    existing \cup {SubSeq(directory, 1, n) : n \in 1..Len(directory)}

\* a variant that leaves an existing store in place
unlink_skipped(store) == store

\* db_path.unlink(missing_ok=True)
unlink(store) == NoStore

\* EdgeTable._save: the edge table goes to the edge layer of the store
\* named by the context
edge_save(self, store) ==
    [store EXCEPT !.exists = TRUE, !.edge = Df(self.edge)]

\* MultiNodeModel._save of the sub-model of type t: its node table goes to
\* the layer of t
sub_save(self, t, store) ==
    [store EXCEPT !.exists = TRUE, !.node[t] = Df(self.node[t].rows)]

RECURSIVE SaveAll(_, _, _)
SaveAll(self, subs, store) ==
    IF subs = <<>> THEN store
    ELSE SaveAll(self, Tail(subs), sub_save(self, Head(subs), store))

\* Model._save after the store path is in the context: the edge table, then
\* every sub-model of _nodes()
_save(self, store) ==
    SaveAll(self, _nodes(self), edge_save(self, unlink(store)))

(***************************************************************************)
(* Config serialisation                                                    *)
(***************************************************************************)
TableKeys == {"solver"} \cup NodeNames

\* Solver.model_dump(exclude_unset=True, exclude_none=True)
SolverDump(solver) ==
    IF "saveat" \in solver.fields_set /\ solver.saveat # "None"
    THEN <<"saveat", solver.saveat>> ELSE <<>>

\* the dump of a node-type sub-model: a section only when it is populated
NodeDump(self, t) == IF IsPopulated(self, t) THEN <<"node">> ELSE <<>>

\* the dumped value of one field
FieldDump(self, f) ==
    CASE f = "starttime"   -> <<self.starttime>>
      [] f = "endtime"     -> <<self.endtime>>
      [] f = "input_dir"   -> serialize_path(self.input_dir)
      [] f = "results_dir" -> serialize_path(self.results_dir)
      [] f = "solver"      -> SolverDump(self.solver)
      [] f = "edge"        -> <<>>
      [] OTHER             -> NodeDump(self, f)

\* model_dump(exclude_unset=True, exclude_none=True, by_alias=True): the
\* fields that are set, in declaration order (no top-level field is None)
model_dump(self) ==
    LET set_fields == SelectSeq(model_fields, LAMBDA f : f \in self.fields_set)
    IN  [i \in 1..Len(set_fields) |-> <<set_fields[i], FieldDump(self, set_fields[i])>>]

IsTruthy(item) == item[2] # <<>>

IsLiteral(item) == item[1] \notin TableKeys

IsTable(item) == item[1] \in TableKeys

\* tomli_w.dump: the literals first, then the tables, each in dict order
tomli_w_dump(content) == SelectSeq(content, IsLiteral) \o SelectSeq(content, IsTable)

\* the content Model._write_toml hands to tomli_w.dump
toml_content(self) ==
    SelectSeq(model_dump(self), IsTruthy) \o <<<<"ribasim_version", <<ribasim_version>>>>>>

\* a variant that opens the file for appending
open_ab(file, lines) == [exists |-> TRUE, lines |-> file.lines \o lines]

\* open(fn, "wb") and write: the file holds exactly what is written
open_wb(file, lines) == [exists |-> TRUE, lines |-> lines]

\* Model._write_toml
_write_toml(self, file) == open_wb(file, tomli_w_dump(toml_content(self)))

\* tomli.load: the dict of the file, as the set of its keys and a lookup
Keys(config) == {config[i][1] : i \in 1..Len(config)}

\* config.get(key, default)
Get(config, key, default) ==
    IF key \in Keys(config)
    THEN LET i == CHOOSE j \in 1..Len(config) : config[j][1] = key IN config[i][2]
    ELSE default

tomli_load(file) == file.lines


(***************************************************************************)
(* Reading a Model back                                                    *)
(***************************************************************************)
\* a table read from its layer; a missing layer reads as an empty table
\* (Model.read creates empty node tables)
LayerRows(store, layer) ==
    IF store.exists /\ layer.present THEN layer.rows ELSE <<>>

\* cls(filepath=..): the fields of the parsed config, every table hydrated
\* from the store named by the context, then model_post_init
ModelFromConfig(config, store) ==
    model_post_init(
        [ starttime   |-> Get(config, "starttime", <<"">>)[1],
          endtime     |-> Get(config, "endtime", <<"">>)[1],
          input_dir   |-> Path(Get(config, "input_dir", <<".">>)),
          results_dir |-> Path(Get(config, "results_dir", <<"results">>)),
          solver      |-> IF "solver" \in Keys(config)
                          THEN [fields_set |-> {"saveat"},
                                saveat |-> Get(config, "solver", <<>>)[2]]
                          ELSE DefaultSolver,
          node        |-> [t \in NodeNames |-> Df(LayerRows(store, store.node[t]))],
          edge        |-> LayerRows(store, store.edge),
          fields_set  |-> Keys(config) \ {"ribasim_version"} ])

\* a variant that resolves the store next to the config file
_load_parent(filepath, config) ==
    [ has_directory |-> TRUE, directory |-> filepath.parent,
      has_database |-> TRUE, database |-> filepath.parent \o database_gpkg ]

\* Model._load, the part after the config is parsed: the context it sets
_load(filepath, config) ==
    LET directory == Join(filepath.parent, Get(config, "input_dir", <<".">>))
    IN  [ has_directory |-> TRUE, directory |-> directory,
          has_database |-> TRUE, database |-> directory \o database_gpkg ]

(***************************************************************************)
(* The call made last and its outcome                                      *)
(***************************************************************************)
NoPath == [parent |-> <<>>, name |-> <<>>]

\* op: the call; path: its filepath argument; ret: "ok" or the exception;
\* model: the Model that read returned; table: the rows node_table returned;
\* database: the store path the call used; removed: the node layers of the
\* store that write deleted; fresh: the call directly follows a successful
\* write to the same path
NoCall ==
    [ op |-> "init", path |-> NoPath, ret |-> "ok", model |-> NoModel,
      table |-> <<>>, database |-> <<>>, removed |-> {}, fresh |-> FALSE ]

FollowsWrite(filepath) ==
    last.op = "write" /\ last.ret = "ok" /\ last.path = filepath

NodeLayers(store) == {t \in NodeNames : store.exists /\ store.node[t].present}

(***************************************************************************)
(* Initial state: a Model built from scratch, nothing on disk              *)
(***************************************************************************)
Init ==
    /\ \E starttime \in StartTimes, edge \in EdgeTables,
          input_dir \in KwArgs(InputDirArgs) \cup {NotGiven(<<>>)},
          solver \in KwArgs(SolverArgs) \cup {NotGiven(DefaultSolver)} :
            model = Model(starttime, input_dir, solver, edge)
    /\ files = [fp \in FilePaths |-> NoFile]
    /\ stores = [d \in StoreDirs |-> NoStore]
    /\ dirs = {}
    /\ context_file_loading = EmptyContext
    /\ last = NoCall

(***************************************************************************)
(* Operations                                                              *)
(***************************************************************************)
\* model.<t> = <NodeType>(node=df): the caller populates a sub-model
AssignNode(t, df) ==
    /\ model' = [model EXCEPT !.node[t] = Df(df), !.fields_set = @ \cup {t}]
    /\ last' = [NoCall EXCEPT !.op = "assign"]
    /\ UNCHANGED <<files, stores, dirs, context_file_loading>>

\* model.node_table()
NodeTable ==
    /\ LET r == node_table(model)
       IN  last' = [NoCall EXCEPT !.op = "node_table", !.ret = r.ret, !.table = r.table]
    /\ UNCHANGED <<model, files, stores, dirs, context_file_loading>>

\* where an I/O step of write may fail
WriteOutcomes == {"ok", "mkdir", "save", "toml"}

\* model.write(filepath); `outcome` names the I/O step that raises, if any:
\* mkdir (directory.mkdir), save (edge._save, after the old store is
\* unlinked), toml (open of the config file)
Write(filepath, outcome) ==
    LET directory == filepath.parent
        db_dir    == Join(directory, model.input_dir)
        db_path   == db_dir \o database_gpkg
        call      == [NoCall EXCEPT !.op = "write", !.path = filepath,
                                    !.fresh = FollowsWrite(filepath)]
        saving    == [EmptyContext EXCEPT !.has_database = TRUE, !.database = db_path]
        used      == [call EXCEPT !.database = db_path,
                                  !.removed = NodeLayers(stores[db_dir])]
    IN  /\ UNCHANGED model
        /\ IF ~IsToml(filepath)
           THEN /\ last' = [call EXCEPT !.ret = "ValueError"]
                /\ UNCHANGED <<files, stores, dirs, context_file_loading>>
           ELSE CASE outcome = "mkdir" ->
                       /\ context_file_loading' = EmptyContext
                       /\ last' = [call EXCEPT !.ret = "OSError"]
                       /\ UNCHANGED <<files, stores, dirs>>
                  [] outcome = "save" ->
                       /\ dirs' = mkdir(mkdir(dirs, directory), db_dir)
                       /\ stores' = [stores EXCEPT ![db_dir] = unlink(@)]
                       /\ context_file_loading' = saving
                       /\ last' = [used EXCEPT !.ret = "OSError"]
                       /\ UNCHANGED files
                  [] outcome = "toml" ->
                       /\ dirs' = mkdir(mkdir(dirs, directory), db_dir)
                       /\ stores' = [stores EXCEPT ![db_dir] = _save(model, @)]
                       /\ context_file_loading' = saving
                       /\ last' = [used EXCEPT !.ret = "OSError"]
                       /\ UNCHANGED files
                  [] OTHER ->
                       /\ dirs' = mkdir(mkdir(dirs, directory), db_dir)
                       /\ stores' = [stores EXCEPT ![db_dir] = _save(model, @)]
                       /\ files' = [files EXCEPT ![filepath] = _write_toml(model, @)]
                       /\ context_file_loading' = EmptyContext
                       /\ last' = used

\* where construction of the Model may fail during read
ReadOutcomes == {"ok", "validation"}

\* Model.read(filepath); `outcome` says whether hydrating / validating the
\* Model raises after _load has returned
Read(filepath, outcome) ==
    LET call == [NoCall EXCEPT !.op = "read", !.path = filepath,
                               !.fresh = FollowsWrite(filepath)]
    IN  /\ UNCHANGED <<model, files, stores, dirs>>
        /\ IF ~files[filepath].exists
           THEN /\ context_file_loading' = EmptyContext
                /\ last' = [call EXCEPT !.ret = "FileNotFoundError"]
           ELSE LET config == tomli_load(files[filepath])
                    ctx    == _load(filepath, config)
                    used   == [call EXCEPT !.database = ctx.database]
                IN  IF outcome = "validation"
                    THEN /\ context_file_loading' = ctx
                         /\ last' = [used EXCEPT !.ret = "ValidationError"]
                    ELSE /\ context_file_loading' = EmptyContext
                         /\ last' = [used EXCEPT
                               !.model = ModelFromConfig(config, stores[Parent(ctx.database)])]

Next ==
    \/ \E t \in NodeNames : \E df \in SmallTables(t) : AssignNode(t, df)
    \/ NodeTable
    \/ \E filepath \in FilePaths, outcome \in WriteOutcomes : Write(filepath, outcome)
    \/ \E filepath \in FilePaths, outcome \in ReadOutcomes : Read(filepath, outcome)

Spec == Init /\ [][Next]_vars

\* the Model queried in memory only: tables of up to MaxRows rows
NextNodes ==
    \/ \E t \in NodeNames : \E df \in NodeTables(t) : AssignNode(t, df)
    \/ NodeTable

SpecNodes == Init /\ [][NextNodes]_vars


(***************************************************************************)
(* Properties                                                              *)
(***************************************************************************)
AnyPopulated(self) == \E t \in NodeNames : IsPopulated(self, t)

\* the rows of a node table attribute, none when it is None
RowsOf(df) == IF df.present THEN df.rows ELSE <<>>

\* how often row r occurs in a sequence of rows
Count(r, rows) == Cardinality({i \in 1..Len(rows) : rows[i] = r})

\* how often row r occurs in the node tables of all sub-models of a Model
CountIn(r, self) ==
    Cardinality({ti \in NodeNames \X (1..MaxRows) :
                    /\ ti[2] <= Len(RowsOf(self.node[ti[1]]))
                    /\ RowsOf(self.node[ti[1]])[ti[2]] = r})

AllRows == {NodeRow(t, id) : t \in NodeNames, id \in NodeIds}

\* the store path write derives from a config path and the Model's input_dir
StorePath(filepath, self) ==
    (filepath.parent \o self.input_dir) \o <<"database.gpkg">>

\* C1: after every call of read or write, on every exit path, the
\* load/write context holds neither a directory nor a store path.
C1_ContextEmptyAfterCall ==
    last.op \in {"read", "write"} =>
        /\ ~context_file_loading.has_directory
        /\ ~context_file_loading.has_database

\* C2: a write to a path whose suffix is not ".toml" raises ValueError and
\* changes nothing: no config file, no store, no directory, no saved table,
\* and the context stays as it was.
C2_RejectedWriteHasNoEffect ==
    [][ (last'.op = "write" /\ suffix(last'.path.name) # <<".", "toml">>) =>
            /\ last'.ret = "ValueError"
            /\ UNCHANGED <<model, files, stores, dirs, context_file_loading>> ]_vars

\* C2 witness: a rejected write that found a non-empty context and left it
C2_Witness ==
    /\ last.op = "write" /\ last.ret = "ValueError"
    /\ context_file_loading.has_database
    /\ \E fp \in FilePaths : files[fp].exists

\* two Models are equivalent: same scalar fields, same edge table, same
\* unified node table up to row order
Equivalent(a, b) ==
    /\ a.starttime = b.starttime /\ a.endtime = b.endtime
    /\ a.input_dir = b.input_dir /\ a.results_dir = b.results_dir
    /\ a.solver.saveat = b.solver.saveat
    /\ a.edge = b.edge
    /\ \A r \in AllRows : CountIn(r, a) = CountIn(r, b)

\* C3: a read that directly follows a successful write of a Model with a
\* populated sub-model to the same path returns an equivalent Model, and it
\* looks for the store where write put it.
C3_RoundTrip ==
    (last.op = "read" /\ last.ret = "ok" /\ last.fresh /\ AnyPopulated(model)) =>
        /\ Equivalent(last.model, model)
        /\ last.database = StorePath(last.path, model)
        /\ stores[Parent(last.database)].exists

\* C3 witness: such a read, of a Model whose input_dir is not the default
C3_Witness ==
    /\ last.op = "read" /\ last.ret = "ok" /\ last.fresh
    /\ AnyPopulated(model)
    /\ model.input_dir = <<"input">>
    /\ model.solver.saveat # "None"

\* C4: the table node_table returns is sorted by node ID ascending.
C4_NodeTableSorted ==
    (last.op = "node_table" /\ last.ret = "ok") =>
        \A i \in 1..(Len(last.table) - 1) :
            last.table[i].node_id <= last.table[i + 1].node_id

\* C4 witness: a sorted result of three rows or more whose sources were
\* out of order, within a sub-model and across sub-models
C4_Witness ==
    /\ last.op = "node_table" /\ last.ret = "ok"
    /\ Len(last.table) >= 3
    /\ Len(model.node["basin"].rows) = 2
    /\ model.node["basin"].rows[1].node_id > model.node["basin"].rows[2].node_id
    /\ IsPopulated(model, "pump")
    /\ model.node["basin"].rows[1].node_id > model.node["pump"].rows[1].node_id

\* C5: the rows node_table returns are, as a multiset, the rows of the node
\* tables of the sub-models: none lost, none duplicated, none from a table
\* that is None or empty.
C5_NodeTableRows ==
    (last.op = "node_table" /\ last.ret = "ok") =>
        \A r \in AllRows : Count(r, last.table) = CountIn(r, model)

\* C5 witness: a result that merges the rows of two sub-models
C5_Witness ==
    /\ last.op = "node_table" /\ last.ret = "ok"
    /\ \A t \in NodeNames : IsPopulated(model, t)
    /\ Len(last.table) = Len(model.node["basin"].rows) + Len(model.node["pump"].rows)

\* C6: node_table of a Model without any populated sub-model returns an
\* empty table and raises nothing.
C6_EmptyModelEmptyTable ==
    (last.op = "node_table" /\ ~AnyPopulated(model)) =>
        (last.ret = "ok" /\ last.table = <<>>)

\* C7: a successful write directly after a successful write of the same
\* Model to the same path leaves the config file and the store as they were.
C7_WriteIdempotent ==
    [][ ( /\ last.op = "write" /\ last.ret = "ok"
          /\ last'.op = "write" /\ last'.ret = "ok"
          /\ last'.path = last.path /\ model' = model ) =>
            /\ files'[last.path] = files[last.path]
            /\ stores'[Parent(last.database)] = stores[Parent(last.database)] ]_vars

\* C7 witness: the second of two such writes, of a Model with content
C7_Witness ==
    /\ last.op = "write" /\ last.ret = "ok" /\ last.fresh
    /\ AnyPopulated(model)
    /\ model.solver.saveat # "None"

\* C8: after a successful write the store at directory/input_dir holds
\* exactly the edge layer and the layers of the populated sub-models, and
\* nothing of what it held before.
C8_StoreRewritten ==
    (last.op = "write" /\ last.ret = "ok") =>
        LET store == stores[Parent(StorePath(last.path, model))]
        IN  /\ store.exists
            /\ store.edge = [present |-> TRUE, rows |-> model.edge]
            /\ \A t \in NodeNames :
                 IF IsPopulated(model, t)
                 THEN store.node[t] = [present |-> TRUE, rows |-> model.node[t].rows]
                 ELSE ~store.node[t].present

\* C8 witness: a write that replaced a store holding a layer of a sub-model
\* that is no longer populated
C8_Witness ==
    /\ last.op = "write" /\ last.ret = "ok"
    /\ \E t \in last.removed : ~IsPopulated(model, t)
    /\ AnyPopulated(model)

\* C9: no two rows of node_table carry the same node ID, also when they
\* come from different sub-models.
C9_UniqueNodeIds ==
    (last.op = "node_table" /\ last.ret = "ok") =>
        \A i, j \in 1..Len(last.table) :
            last.table[i].node_id = last.table[j].node_id => i = j

HasKey(lines, key) == \E i \in 1..Len(lines) : lines[i][1] = key

ValueOf(lines, key) == lines[CHOOSE i \in 1..Len(lines) : lines[i][1] = key][2]

\* C10: a written config carries input_dir, results_dir (as path strings)
\* and ribasim_version, and omits every unset or none-valued field and
\* every section without content.
C10_SparseConfig ==
    (last.op = "write" /\ last.ret = "ok") =>
        LET lines == files[last.path].lines
        IN  /\ HasKey(lines, "input_dir")
            /\ ValueOf(lines, "input_dir") =
                  (IF model.input_dir = <<>> THEN <<".">> ELSE model.input_dir)
            /\ HasKey(lines, "results_dir")
            /\ ValueOf(lines, "results_dir") = <<"results">>
            /\ HasKey(lines, "ribasim_version")
            /\ ValueOf(lines, "ribasim_version") = <<"0.2.0">>
            /\ \A i \in 1..Len(lines) : lines[i][2] # <<>>
            /\ \A i, j \in 1..Len(lines) : lines[i][1] = lines[j][1] => i = j
            /\ HasKey(lines, "solver") =>
                  /\ "solver" \in model.fields_set
                  /\ "saveat" \in model.solver.fields_set
                  /\ model.solver.saveat # "None"
            /\ \A t \in NodeNames :
                  HasKey(lines, t) => (t \in model.fields_set /\ IsPopulated(model, t))
            /\ ~HasKey(lines, "edge")

\* C10 witness: a written Model whose dir fields were never given, with a
\* none-valued setting and an assigned but empty sub-model
C10_Witness ==
    /\ last.op = "write" /\ last.ret = "ok"
    /\ model.input_dir = <<>>
    /\ "solver" \in model.fields_set /\ model.solver.saveat = "None"
    /\ \E t \in NodeNames : t \in model.fields_set /\ ~IsPopulated(model, t)
    /\ \E t \in NodeNames : IsPopulated(model, t)

====
